---- MODULE Spec2Model ----
(***************************************************************************)
(* The dump-event NDJSON line decoder of phant (package internal/dump):     *)
(* DecodeNDJSONLine, validateRequiredKeys and validateEvent, together with  *)
(* the parts of encoding/json, strings and time they call.                  *)
(*                                                                          *)
(* A line is a sequence of items: whitespace characters and JSON text.      *)
(* JSON text is kept as its syntax tree, a record whose field t is          *)
(*   "null" | "bool" | "num" (integer literal) | "frac" (number literal     *)
(*   with a fraction or exponent) | "str" | "arr" | "obj" | "bad" (text     *)
(*   that is no JSON value: a missing or truncated value),                  *)
(* with b the boolean, n the integer, s the string, a the elements and m    *)
(* the members it holds.                                                    *)
(* A string is a sequence of tokens (pieces of text), <<>> the empty        *)
(* string; an object is the sequence of its members <<key, value>> in the   *)
(* order of the text.                                                       *)
(***************************************************************************)
EXTENDS Integers, Sequences, FiniteSets, TLC

VARIABLES line, pc, result, invocations, events

vars == <<line, pc, result, invocations, events>>

----------------------------------------------------------------------------
(* JSON syntax trees *)

JNull == [t |-> "null", b |-> FALSE, n |-> 0, s |-> <<>>, a |-> <<>>, m |-> <<>>]
JBad == [JNull EXCEPT !.t = "bad"]
JBool(b) == [JNull EXCEPT !.t = "bool", !.b = b]
JNum(n) == [JNull EXCEPT !.t = "num", !.n = n]
JFrac(literal) == [JNull EXCEPT !.t = "frac", !.s = <<literal>>]
JStr(tokens) == [JNull EXCEPT !.t = "str", !.s = tokens]
JText(s) == JStr(<<s>>)
JEmptyStr == JStr(<<>>)
JArr(elems) == [JNull EXCEPT !.t = "arr", !.a = elems]
JObj(members) == [JNull EXCEPT !.t = "obj", !.m = members]

(* encoding/json checkValid: the text scans as one JSON value. *)
RECURSIVE SyntaxValid(_)
SyntaxValid(j) ==
  CASE j.t = "bad" -> FALSE
    [] j.t = "arr" -> \A i \in DOMAIN j.a : SyntaxValid(j.a[i])
    [] j.t = "obj" -> \A i \in DOMAIN j.m : SyntaxValid(j.m[i][2])
    [] OTHER -> TRUE

(* The word encoding/json uses for a value in an UnmarshalTypeError. *)
JSONTypeName(j) ==
  CASE j.t = "str" -> "string"
    [] j.t = "num" -> "number"
    [] j.t = "frac" -> "number"
    [] j.t = "bool" -> "bool"
    [] j.t = "arr" -> "array"
    [] j.t = "obj" -> "object"
    [] OTHER -> "null"

----------------------------------------------------------------------------
(* Errors: a kind (which Go value it is) and its message. *)

NoErr == [kind |-> "nil", msg |-> ""]
ErrorsNew(m) == [kind |-> "errorString", msg |-> m]
FmtErrorf(m, arg) == [kind |-> "fmtError", msg |-> m \o arg]
SyntaxError == [kind |-> "SyntaxError", msg |-> "invalid character"]
UnmarshalTypeError(value, place, gotype) ==
  [kind |-> "UnmarshalTypeError",
   msg |-> "json: cannot unmarshal " \o value \o " into Go " \o place \o " of type " \o gotype]

ErrUnsupportedSchemaVersion == [kind |-> "ErrUnsupportedSchemaVersion", msg |-> "unsupported schemaVersion"]

SchemaVersion == 1
(* App.SupportedDumpEventSchemaVersion returns dump.SchemaVersion. *)
SupportedDumpEventSchemaVersion == SchemaVersion

(* The key list as it would be with its last entry left out. *)
requiredEventKeysWithoutHost ==
  <<"schemaVersion", "id", "timestamp", "sourceType", "projectRoot", "phpSapi",
    "requestId", "isDd", "payloadFormat", "payload", "trace">>

requiredEventKeys ==
  <<"schemaVersion", "id", "timestamp", "sourceType", "projectRoot", "phpSapi",
    "requestId", "isDd", "payloadFormat", "payload", "trace", "host">>

----------------------------------------------------------------------------
(* The typed structures of types.go.  A Go type is named by a string; a     *)
(* pointer or a slice is [nil, val]; a RawMessage is the sequence of the    *)
(* JSON texts it holds (<<>>: no bytes).                                    *)

PointerKinds == {"*string", "*int", "*HTTPMeta", "*CommandMeta"}
SliceKinds == {"[]string", "[]TraceFrame", "[]RawMessage"}
StructKinds == {"Event", "HTTPMeta", "CommandMeta", "TraceFrame", "HostMeta"}

Elem(kind) ==
  CASE kind = "*string" -> "string"
    [] kind = "*int" -> "int"
    [] kind = "*HTTPMeta" -> "HTTPMeta"
    [] kind = "*CommandMeta" -> "CommandMeta"
    [] kind = "[]string" -> "string"
    [] kind = "[]TraceFrame" -> "TraceFrame"
    [] kind = "[]RawMessage" -> "RawMessage"

GoTypeName(kind) ==
  CASE kind \in {"int", "string", "bool"} -> kind
    [] kind \in {"*string", "*int"} -> Elem(kind)
    [] kind \in {"*HTTPMeta", "*CommandMeta"} -> "dump." \o Elem(kind)
    [] kind = "[]string" -> "[]string"
    [] kind = "[]TraceFrame" -> "[]dump.TraceFrame"
    [] OTHER -> "dump." \o kind

Field(key, go, kind) == [key |-> key, go |-> go, kind |-> kind]

HTTPMeta ==
  <<Field("method", "Method", "string"), Field("scheme", "Scheme", "string"),
    Field("host", "Host", "string"), Field("path", "Path", "string"),
    Field("query", "Query", "string"), Field("statusCode", "StatusCode", "*int"),
    Field("clientIp", "ClientIP", "string"), Field("userAgent", "UserAgent", "string")>>

CommandMeta ==
  <<Field("name", "Name", "string"), Field("args", "Args", "[]string"),
    Field("cwd", "Cwd", "string")>>

TraceFrame ==
  <<Field("file", "File", "string"), Field("line", "Line", "int"),
    Field("func", "Func", "string")>>

HostMeta ==
  <<Field("hostname", "Hostname", "string"), Field("pid", "PID", "int")>>

Event ==
  <<Field("schemaVersion", "SchemaVersion", "int"), Field("id", "ID", "string"),
    Field("timestamp", "Timestamp", "string"), Field("sourceType", "SourceType", "string"),
    Field("projectRoot", "ProjectRoot", "string"), Field("phpSapi", "PHPSAPI", "string"),
    Field("requestId", "RequestID", "*string"), Field("http", "HTTP", "*HTTPMeta"),
    Field("command", "Command", "*CommandMeta"), Field("isDd", "IsDD", "bool"),
    Field("payloadFormat", "PayloadFormat", "string"), Field("payload", "Payload", "RawMessage"),
    Field("trace", "Trace", "[]TraceFrame"), Field("host", "Host", "HostMeta")>>

Fields(kind) ==
  CASE kind = "Event" -> Event
    [] kind = "HTTPMeta" -> HTTPMeta
    [] kind = "CommandMeta" -> CommandMeta
    [] kind = "TraceFrame" -> TraceFrame
    [] kind = "HostMeta" -> HostMeta

ZeroHTTPMeta ==
  [Method |-> <<>>, Scheme |-> <<>>, Host |-> <<>>, Path |-> <<>>, Query |-> <<>>,
   StatusCode |-> [nil |-> TRUE, val |-> 0], ClientIP |-> <<>>, UserAgent |-> <<>>]
ZeroCommandMeta == [Name |-> <<>>, Args |-> [nil |-> TRUE, val |-> <<>>], Cwd |-> <<>>]
ZeroTraceFrame == [File |-> <<>>, Line |-> 0, Func |-> <<>>]
ZeroHostMeta == [Hostname |-> <<>>, PID |-> 0]
ZeroEvent ==
  [SchemaVersion |-> 0, ID |-> <<>>, Timestamp |-> <<>>, SourceType |-> <<>>,
   ProjectRoot |-> <<>>, PHPSAPI |-> <<>>, RequestID |-> [nil |-> TRUE, val |-> <<>>],
   HTTP |-> [nil |-> TRUE, val |-> ZeroHTTPMeta],
   Command |-> [nil |-> TRUE, val |-> ZeroCommandMeta],
   IsDD |-> FALSE, PayloadFormat |-> <<>>, Payload |-> <<>>,
   Trace |-> [nil |-> TRUE, val |-> <<>>], Host |-> ZeroHostMeta]

Zero(kind) ==
  CASE kind = "int" -> 0
    [] kind = "string" -> <<>>
    [] kind = "bool" -> FALSE
    [] kind = "RawMessage" -> <<>>
    [] kind = "*string" -> [nil |-> TRUE, val |-> <<>>]
    [] kind = "*int" -> [nil |-> TRUE, val |-> 0]
    [] kind = "*HTTPMeta" -> [nil |-> TRUE, val |-> ZeroHTTPMeta]
    [] kind = "*CommandMeta" -> [nil |-> TRUE, val |-> ZeroCommandMeta]
    [] kind \in SliceKinds -> [nil |-> TRUE, val |-> <<>>]
    [] kind = "HTTPMeta" -> ZeroHTTPMeta
    [] kind = "CommandMeta" -> ZeroCommandMeta
    [] kind = "TraceFrame" -> ZeroTraceFrame
    [] kind = "HostMeta" -> ZeroHostMeta
    [] kind = "Event" -> ZeroEvent

----------------------------------------------------------------------------
(* encoding/json Unmarshal into a typed value.                              *)

(* The case folding of a key (the keys of the model that differ from a      *)
(* field name only in case, and their folded form).                         *)
FoldName(key) ==
  CASE key = "ID" -> "id"
    [] key = "TRACE" -> "trace"
    [] key = "Http" -> "http"
    [] OTHER -> key

(* The field a key names: the exact name, else a name equal under folding;  *)
(* 0 when the struct has no such field (the member is skipped).             *)
FieldIndex(kind, key) ==
  LET fs == Fields(kind)
      exact == {i \in DOMAIN fs : fs[i].key = key}
      folded == {i \in DOMAIN fs : FoldName(fs[i].key) = FoldName(key)}
  IN IF exact # {} THEN CHOOSE i \in exact : TRUE
     ELSE IF folded # {} THEN CHOOSE i \in folded : TRUE
     ELSE 0

FirstErr(a, b) == IF a # NoErr THEN a ELSE b

RECURSIVE Store(_, _, _, _)
RECURSIVE DecodeObject(_, _, _, _, _)
RECURSIVE DecodeArray(_, _, _, _, _)

(* decodeState.value: store JSON value j into a Go value of the given type  *)
(* that now holds cur.  A type mismatch is saved as the error and leaves    *)
(* the value as it is; decoding goes on.                                    *)
Store(kind, cur, j, path) ==
  LET mismatch(what) ==
        [val |-> cur, err |-> UnmarshalTypeError(what, "struct field " \o path, GoTypeName(kind))]
      done(x) == [val |-> x, err |-> NoErr]
  IN IF kind = "RawMessage" THEN done(<<j>>)
     ELSE IF j.t = "null" THEN
       (IF kind \in PointerKinds \cup SliceKinds THEN done(Zero(kind)) ELSE done(cur))
     ELSE IF kind \in PointerKinds THEN
       (LET inner == Store(Elem(kind), IF cur.nil THEN Zero(Elem(kind)) ELSE cur.val, j, path)
        IN [val |-> [nil |-> FALSE, val |-> inner.val], err |-> inner.err])
     ELSE IF kind = "int" THEN
       (IF j.t = "num" THEN done(j.n)
        ELSE IF j.t = "frac" THEN mismatch("number " \o j.s[1])
        ELSE mismatch(JSONTypeName(j)))
     ELSE IF kind = "string" THEN
       (IF j.t = "str" THEN done(j.s) ELSE mismatch(JSONTypeName(j)))
     ELSE IF kind = "bool" THEN
       (IF j.t = "bool" THEN done(j.b) ELSE mismatch(JSONTypeName(j)))
     ELSE IF kind \in SliceKinds THEN
       (IF j.t = "arr"
        THEN LET r == DecodeArray(Elem(kind), j.a, cur.val, path, Len(j.a))
             IN [val |-> [nil |-> FALSE, val |-> r.val], err |-> r.err]
        ELSE mismatch(JSONTypeName(j)))
     ELSE
       (IF j.t = "obj" THEN DecodeObject(kind, j.m, cur, path, Len(j.m))
        ELSE mismatch(JSONTypeName(j)))

(* decodeState.array, the first n elements: element i is decoded into the   *)
(* slice's element i when it has one, else into a zero element.             *)
DecodeArray(ekind, elems, old, path, n) ==
  IF n = 0 THEN [val |-> <<>>, err |-> NoErr]
  ELSE LET prev == DecodeArray(ekind, elems, old, path, n - 1)
           this == Store(ekind, IF n <= Len(old) THEN old[n] ELSE Zero(ekind), elems[n], path)
       IN [val |-> Append(prev.val, this.val), err |-> FirstErr(prev.err, this.err)]

(* decodeState.object, the first n members in the order of the text: a      *)
(* later member for the same field is stored over the earlier one.          *)
DecodeObject(kind, members, cur, path, n) ==
  IF n = 0 THEN [val |-> cur, err |-> NoErr]
  ELSE LET prev == DecodeObject(kind, members, cur, path, n - 1)
           i == FieldIndex(kind, members[n][1])
       IN IF i = 0 THEN prev
          ELSE LET f == Fields(kind)[i]
                   this == Store(f.kind, prev.val[f.go], members[n][2], path \o "." \o f.key)
               IN [val |-> [prev.val EXCEPT ![f.go] = this.val],
                   err |-> FirstErr(prev.err, this.err)]

(* An Unmarshal that drops the type errors it saved. *)
UnmarshalEventDropsTypeErrors(j) ==
  IF ~SyntaxValid(j) THEN [val |-> ZeroEvent, err |-> SyntaxError]
  ELSE IF j.t = "obj"
    THEN [val |-> DecodeObject("Event", j.m, ZeroEvent, "Event", Len(j.m)).val, err |-> NoErr]
  ELSE [val |-> ZeroEvent, err |-> NoErr]

(* json.Unmarshal(text, &event), event a zero Event. *)
UnmarshalEvent(j) ==
  IF ~SyntaxValid(j) THEN [val |-> ZeroEvent, err |-> SyntaxError]
  ELSE IF j.t = "null" THEN [val |-> ZeroEvent, err |-> NoErr]
  ELSE IF j.t = "obj" THEN DecodeObject("Event", j.m, ZeroEvent, "Event", Len(j.m))
  ELSE [val |-> ZeroEvent,
        err |-> UnmarshalTypeError(JSONTypeName(j), "value", "dump.Event")]

(* An Unmarshal that scans the top-level value only, not the values of its  *)
(* members.                                                                 *)
UnmarshalRawMapTopLevelScan(j) ==
  IF j.t = "bad" THEN [val |-> <<>>, err |-> SyntaxError]
  ELSE IF j.t = "null" THEN [val |-> <<>>, err |-> NoErr]
  ELSE IF j.t = "obj" THEN [val |-> j.m, err |-> NoErr]
  ELSE [val |-> <<>>,
        err |-> UnmarshalTypeError(JSONTypeName(j), "value", "map[string]json.RawMessage")]

(* An Unmarshal that leaves the map nil, without an error, for every value  *)
(* that is no object.                                                       *)
UnmarshalRawMapSkipsNonObject(j) ==
  IF ~SyntaxValid(j) THEN [val |-> <<>>, err |-> SyntaxError]
  ELSE IF j.t = "obj" THEN [val |-> j.m, err |-> NoErr]
  ELSE [val |-> <<>>, err |-> NoErr]

(* json.Unmarshal(text, &raw), raw a nil map[string]json.RawMessage: the    *)
(* map is kept as the members of the object; a key's entry is its last      *)
(* member.                                                                  *)
UnmarshalRawMap(j) ==
  IF ~SyntaxValid(j) THEN [val |-> <<>>, err |-> SyntaxError]
  ELSE IF j.t = "null" THEN [val |-> <<>>, err |-> NoErr]
  ELSE IF j.t = "obj" THEN [val |-> j.m, err |-> NoErr]
  ELSE [val |-> <<>>,
        err |-> UnmarshalTypeError(JSONTypeName(j), "value", "map[string]json.RawMessage")]

HasKey(raw, key) == \E i \in DOMAIN raw : raw[i][1] = key

Lookup(raw, key) ==
  LET last == CHOOSE i \in DOMAIN raw :
                raw[i][1] = key /\ \A k \in DOMAIN raw : k > i => raw[k][1] # key
  IN raw[last][2]

----------------------------------------------------------------------------
(* encoding/json Marshal of a typed value, by the tags of the struct types. *)

(* The keys tagged omitempty in each struct type. *)
OmitEmpty(kind) ==
  CASE kind = "Event" -> {"http", "command"}
    [] kind = "HTTPMeta" -> {"query", "statusCode", "clientIp", "userAgent"}
    [] kind = "CommandMeta" -> {"args", "cwd"}
    [] kind = "TraceFrame" -> {"file", "line", "func"}
    [] kind = "HostMeta" -> {}

(* isEmptyValue: false, 0, a nil pointer, a string or slice of length 0. *)
IsEmptyValue(kind, v) ==
  CASE kind = "int" -> v = 0
    [] kind = "string" -> v = <<>>
    [] kind = "bool" -> v = FALSE
    [] kind \in PointerKinds -> v.nil
    [] kind \in SliceKinds -> Len(v.val) = 0
    [] OTHER -> FALSE

RECURSIVE Marshal(_, _)
RECURSIVE MarshalFields(_, _, _)

(* The JSON text of value v of the given type: a nil pointer or slice and a *)
(* nil RawMessage are written null.                                         *)
Marshal(kind, v) ==
  IF kind = "RawMessage" THEN (IF v = <<>> THEN JNull ELSE v[1])
  ELSE IF kind \in PointerKinds THEN (IF v.nil THEN JNull ELSE Marshal(Elem(kind), v.val))
  ELSE IF kind = "int" THEN JNum(v)
  ELSE IF kind = "string" THEN JStr(v)
  ELSE IF kind = "bool" THEN JBool(v)
  ELSE IF kind \in SliceKinds THEN
    (IF v.nil THEN JNull ELSE JArr([i \in DOMAIN v.val |-> Marshal(Elem(kind), v.val[i])]))
  ELSE JObj(MarshalFields(kind, v, Len(Fields(kind))))

(* The members of the first n fields of a struct, in the order of the       *)
(* fields, without the omitempty fields that are empty.                     *)
MarshalFields(kind, v, n) ==
  IF n = 0 THEN <<>>
  ELSE LET f == Fields(kind)[n]
           prev == MarshalFields(kind, v, n - 1)
       IN IF f.key \in OmitEmpty(kind) /\ IsEmptyValue(f.kind, v[f.go]) THEN prev
          ELSE Append(prev, <<f.key, Marshal(f.kind, v[f.go])>>)

----------------------------------------------------------------------------
(* package time: Parse and Format with the layout RFC3339Nano,              *)
(* "2006-01-02T15:04:05.999999999Z07:00".  A timestamp text is the tokens   *)
(* <<date "T", hour, ":" minute ":" second, [".", digit, ...], zone>>.      *)

DateTokens == {"2026-02-28T"}
MinSecTokens == {":20:31"}
Digits == {"0", "1", "2", "3", "4", "5", "6", "7", "8", "9"}
HourValue == ("09" :> 9) @@ ("10" :> 10) @@ ("11" :> 11) @@ ("12" :> 12) @@ ("13" :> 13)
HourToken(n) == CHOOSE h \in DOMAIN HourValue : HourValue[h] = n
(* Hours east of UTC of each zone text. *)
ZoneOffsetHours == ("Z" :> 0) @@ ("+00:00" :> 0) @@ ("+01:00" :> 1) @@ ("-01:00" :> -1)

NanoDigits == 9

RECURSIVE PadZeros(_, _)
PadZeros(ds, n) == IF Len(ds) >= n THEN SubSeq(ds, 1, n) ELSE PadZeros(Append(ds, "0"), n)

RECURSIVE StripZeros(_)
StripZeros(ds) ==
  IF ds # <<>> /\ ds[Len(ds)] = "0" THEN StripZeros(SubSeq(ds, 1, Len(ds) - 1)) ELSE ds

(* A Parse that takes a fraction after "." only. *)
TimeParsePeriodOnly(s) ==
  LET n == Len(s)
      frac == SubSeq(s, 4, n - 1)
      shaped ==
        /\ n >= 4
        /\ s[1] \in DateTokens
        /\ s[2] \in DOMAIN HourValue
        /\ s[3] \in MinSecTokens
        /\ s[n] \in DOMAIN ZoneOffsetHours
        /\ \/ frac = <<>>
           \/ /\ Len(frac) >= 2
              /\ frac[1] = "."
              /\ \A i \in 2 .. Len(frac) : frac[i] \in Digits
  IN IF ~shaped THEN [ok |-> FALSE, date |-> "", hour |-> 0, minsec |-> "", nanos |-> <<>>]
     ELSE [ok |-> TRUE, date |-> s[1], hour |-> HourValue[s[2]] - ZoneOffsetHours[s[n]],
           minsec |-> s[3],
           nanos |-> PadZeros(IF frac = <<>> THEN <<>> ELSE SubSeq(frac, 2, Len(frac)), NanoDigits)]

(* time.Parse(time.RFC3339Nano, s): a fraction is accepted whatever its     *)
(* number of digits (after "." or ","), digits past the ninth are dropped;  *)
(* the instant is kept in UTC.                                              *)
TimeParse(s) ==
  LET n == Len(s)
      frac == SubSeq(s, 4, n - 1)
      shaped ==
        /\ n >= 4
        /\ s[1] \in DateTokens
        /\ s[2] \in DOMAIN HourValue
        /\ s[3] \in MinSecTokens
        /\ s[n] \in DOMAIN ZoneOffsetHours
        /\ \/ frac = <<>>
           \/ /\ Len(frac) >= 2
              /\ frac[1] \in {".", ","}
              /\ \A i \in 2 .. Len(frac) : frac[i] \in Digits
  IN IF ~shaped THEN [ok |-> FALSE, date |-> "", hour |-> 0, minsec |-> "", nanos |-> <<>>]
     ELSE [ok |-> TRUE, date |-> s[1], hour |-> HourValue[s[2]] - ZoneOffsetHours[s[n]],
           minsec |-> s[3],
           nanos |-> PadZeros(IF frac = <<>> THEN <<>> ELSE SubSeq(frac, 2, Len(frac)), NanoDigits)]

(* Format with the layout ".000000000": always nine fraction digits. *)
TimeFormatUTCNineDigits(t) ==
  <<t.date, HourToken(t.hour), t.minsec, ".">> \o t.nanos \o <<"Z">>

(* t.UTC().Format(time.RFC3339Nano): the fraction without its trailing      *)
(* zeros, none when it is zero; the zone of UTC is written "Z".             *)
TimeFormatUTC(t) ==
  LET frac == StripZeros(t.nanos)
  IN <<t.date, HourToken(t.hour), t.minsec>>
       \o (IF frac = <<>> THEN <<>> ELSE <<".">> \o frac) \o <<"Z">>

----------------------------------------------------------------------------
(* package strings *)

WhiteSpace == {" ", "\t", "\n", "\r"}
(* A trim that knows only the space and the tab. *)
IsBlankOrTab(item) == item.c \in {" ", "\t"}
IsSpace(item) == item.c \in WhiteSpace

RECURSIVE TrimLeft(_)
TrimLeft(l) == IF l # <<>> /\ IsSpace(l[1]) THEN TrimLeft(Tail(l)) ELSE l

RECURSIVE TrimRight(_)
TrimRight(l) ==
  IF l # <<>> /\ IsSpace(l[Len(l)]) THEN TrimRight(SubSeq(l, 1, Len(l) - 1)) ELSE l

(* A trim of the left end only. *)
TrimSpaceLeftOnly(l) == TrimLeft(l)
TrimSpace(l) == TrimRight(TrimLeft(l))

(* The JSON text of a trimmed line: one value; anything else (a second      *)
(* value after the first) does not scan.                                    *)
TextOf(trimmed) == IF Len(trimmed) = 1 THEN trimmed[1].j ELSE JBad

----------------------------------------------------------------------------
(* DecodeNDJSONLine and its two validators *)

(* The requestId check without its exemption of null. *)
RequestIDStringOnly(requestIDRaw) ==
  requestIDRaw.t # "null" /\ Store("string", <<>>, requestIDRaw, "").err = NoErr

(* requestId is the literal null or unmarshals into a string. *)
RequestIDNullOrString(requestIDRaw) ==
  requestIDRaw.t = "null" \/ Store("string", <<>>, requestIDRaw, "").err = NoErr

(* isDd unmarshals into a bool. *)
IsDDUnmarshals(isDDRaw) == Store("bool", FALSE, isDDRaw, "").err = NoErr

(* The trace check without its test for the literal null. *)
TraceNullAllowed(traceRaw) ==
  Store("[]RawMessage", Zero("[]RawMessage"), traceRaw, "").err = NoErr

(* trace is not the literal null and unmarshals into a []json.RawMessage. *)
TraceIsArray(traceRaw) ==
  /\ traceRaw.t # "null"
  /\ Store("[]RawMessage", Zero("[]RawMessage"), traceRaw, "").err = NoErr

validateRequiredKeys(raw) ==
  LET missing == {i \in DOMAIN requiredEventKeys : ~HasKey(raw, requiredEventKeys[i])}
      first == CHOOSE i \in missing : \A k \in missing : i <= k
  IN IF missing # {}
       THEN FmtErrorf("missing required dump event field: ", requiredEventKeys[first])
     ELSE IF ~RequestIDNullOrString(Lookup(raw, "requestId"))
       THEN ErrorsNew("requestId must be null or string")
     ELSE IF ~IsDDUnmarshals(Lookup(raw, "isDd"))
       THEN ErrorsNew("isDd must be a boolean")
     ELSE IF ~TraceIsArray(Lookup(raw, "trace"))
       THEN ErrorsNew("trace must be an array")
     ELSE NoErr

(* A validity check that does not take the literal null. *)
JSONValidButNull(rawMessage) ==
  Len(rawMessage) = 1 /\ SyntaxValid(rawMessage[1]) /\ rawMessage[1].t # "null"
(* json.Valid(event.Payload) *)
JSONValid(rawMessage) == Len(rawMessage) = 1 /\ SyntaxValid(rawMessage[1])

(* A version check that rejects only versions above the supported one. *)
OnlyNewerUnsupported(event) == event.SchemaVersion > SchemaVersion
UnsupportedVersion(event) == event.SchemaVersion # SchemaVersion

(* A non-empty check that leaves out phpSapi. *)
MissingRequiredFieldsButSAPI(event) ==
  \/ event.ID = <<>> \/ event.Timestamp = <<>> \/ event.SourceType = <<>>
  \/ event.ProjectRoot = <<>>
  \/ event.PayloadFormat = <<>> \/ Len(event.Payload) = 0

MissingRequiredFields(event) ==
  \/ event.ID = <<>> \/ event.Timestamp = <<>> \/ event.SourceType = <<>>
  \/ event.ProjectRoot = <<>> \/ event.PHPSAPI = <<>>
  \/ event.PayloadFormat = <<>> \/ Len(event.Payload) = 0

(* A host check that lets the pid zero through. *)
InvalidHostNegativePIDOnly(event) == event.Host.Hostname = <<>> \/ event.Host.PID < 0
InvalidHost(event) == event.Host.Hostname = <<>> \/ event.Host.PID <= 0

(* An enum check that ignores case. *)
SourceTypeAnyCase(sourceType) ==
  sourceType \in {<<"http">>, <<"cli">>, <<"worker">>, <<"cron">>, <<"HTTP">>}
SourceTypePermitted(sourceType) ==
  sourceType \in {<<"http">>, <<"cli">>, <<"worker">>, <<"cron">>}

(* A format check that ignores case. *)
PayloadFormatAnyCase(payloadFormat) == payloadFormat \in {<<"json">>, <<"JSON">>}
PayloadFormatIsJSON(payloadFormat) == payloadFormat = <<"json">>

(* A branch that asks for command only when sourceType is cli. *)
CommandOnlyForCLI(event) == event.SourceType # <<"cli">>
UsesHTTPMeta(event) == event.SourceType = <<"http">>

(* An http check that leaves out the method. *)
MissingHTTPFieldsButMethod(http) ==
  http.Scheme = <<>> \/ http.Host = <<>> \/ http.Path = <<>>
MissingHTTPFields(http) ==
  http.Method = <<>> \/ http.Scheme = <<>> \/ http.Host = <<>> \/ http.Path = <<>>

(* The checks of validateEvent with the host check moved before the        *)
(* non-empty check.                                                         *)
validateEventHostFirst(event) ==
  LET timestamp == TimeParse(event.Timestamp)
  IN IF UnsupportedVersion(event)
       THEN ErrUnsupportedSchemaVersion
     ELSE IF InvalidHost(event)
       THEN ErrorsNew("invalid host metadata")
     ELSE IF MissingRequiredFields(event)
       THEN ErrorsNew("missing required dump event fields")
     ELSE IF ~timestamp.ok
       THEN ErrorsNew("timestamp must be RFC3339Nano")
     ELSE IF TimeFormatUTC(timestamp) # event.Timestamp
       THEN ErrorsNew("timestamp must be UTC (Z)")
     ELSE IF ~SourceTypePermitted(event.SourceType)
       THEN ErrorsNew("sourceType must be one of: http, cli, worker, cron")
     ELSE IF ~PayloadFormatIsJSON(event.PayloadFormat)
       THEN ErrorsNew("payloadFormat must be json for schemaVersion 1")
     ELSE IF UsesHTTPMeta(event) /\ event.HTTP.nil
       THEN ErrorsNew("http metadata is required when sourceType is http")
     ELSE IF UsesHTTPMeta(event) /\ MissingHTTPFields(event.HTTP.val)
       THEN ErrorsNew("http metadata is missing required fields")
     ELSE IF ~UsesHTTPMeta(event) /\ event.Command.nil
       THEN ErrorsNew("command metadata is required when sourceType is cli, worker, or cron")
     ELSE IF ~UsesHTTPMeta(event) /\ event.Command.val.Name = <<>>
       THEN ErrorsNew("command metadata is missing required field: name")
     ELSE IF ~JSONValid(event.Payload)
       THEN ErrorsNew("payload must be valid JSON")
     ELSE NoErr

validateEvent(event) ==
  LET timestamp == TimeParse(event.Timestamp)
  IN IF UnsupportedVersion(event)
       THEN ErrUnsupportedSchemaVersion
     ELSE IF MissingRequiredFields(event)
       THEN ErrorsNew("missing required dump event fields")
     ELSE IF InvalidHost(event)
       THEN ErrorsNew("invalid host metadata")
     ELSE IF ~timestamp.ok
       THEN ErrorsNew("timestamp must be RFC3339Nano")
     ELSE IF TimeFormatUTC(timestamp) # event.Timestamp
       THEN ErrorsNew("timestamp must be UTC (Z)")
     ELSE IF ~SourceTypePermitted(event.SourceType)
       THEN ErrorsNew("sourceType must be one of: http, cli, worker, cron")
     ELSE IF ~PayloadFormatIsJSON(event.PayloadFormat)
       THEN ErrorsNew("payloadFormat must be json for schemaVersion 1")
     ELSE IF UsesHTTPMeta(event) /\ event.HTTP.nil
       THEN ErrorsNew("http metadata is required when sourceType is http")
     ELSE IF UsesHTTPMeta(event) /\ MissingHTTPFields(event.HTTP.val)
       THEN ErrorsNew("http metadata is missing required fields")
     ELSE IF ~UsesHTTPMeta(event) /\ event.Command.nil
       THEN ErrorsNew("command metadata is required when sourceType is cli, worker, or cron")
     ELSE IF ~UsesHTTPMeta(event) /\ event.Command.val.Name = <<>>
       THEN ErrorsNew("command metadata is missing required field: name")
     ELSE IF ~JSONValid(event.Payload)
       THEN ErrorsNew("payload must be valid JSON")
     ELSE NoErr

(* What a call returns: the *Event (nil, or the Event it points to), the    *)
(* error, and the calls the invocation made, in order.                      *)
Return(event, err, steps) ==
  [event |-> IF event = <<>> THEN [nil |-> TRUE, val |-> ZeroEvent]
             ELSE [nil |-> FALSE, val |-> event[1]],
   err |-> err, steps |-> steps]

(* A decoder that hands back the Event it built together with the error. *)
DecodeReturnsEventWithError(l) ==
  LET trimmed == TrimSpace(l)
      raw == UnmarshalRawMap(TextOf(trimmed))
      event == UnmarshalEvent(TextOf(trimmed))
      err == FirstErr(raw.err, FirstErr(validateRequiredKeys(raw.val),
                                        FirstErr(event.err, validateEvent(event.val))))
  IN IF trimmed = <<>> THEN Return(<<>>, NoErr, <<"TrimSpace">>)
     ELSE Return(<<event.val>>, err,
                 <<"TrimSpace", "Unmarshal raw", "validateRequiredKeys", "Unmarshal event",
                   "validateEvent">>)

DecodeNDJSONLine(l) ==
  LET trimmed == TrimSpace(l)
      raw == UnmarshalRawMap(TextOf(trimmed))
      keysErr == validateRequiredKeys(raw.val)
      event == UnmarshalEvent(TextOf(trimmed))
      eventErr == validateEvent(event.val)
  IN IF trimmed = <<>> THEN Return(<<>>, NoErr, <<"TrimSpace">>)
     ELSE IF raw.err # NoErr THEN Return(<<>>, raw.err, <<"TrimSpace", "Unmarshal raw">>)
     ELSE IF keysErr # NoErr
       THEN Return(<<>>, keysErr, <<"TrimSpace", "Unmarshal raw", "validateRequiredKeys">>)
     ELSE IF event.err # NoErr
       THEN Return(<<>>, event.err,
                   <<"TrimSpace", "Unmarshal raw", "validateRequiredKeys", "Unmarshal event">>)
     ELSE IF eventErr # NoErr
       THEN Return(<<>>, eventErr,
                   <<"TrimSpace", "Unmarshal raw", "validateRequiredKeys", "Unmarshal event",
                     "validateEvent">>)
     ELSE Return(<<event.val>>, NoErr,
                 <<"TrimSpace", "Unmarshal raw", "validateRequiredKeys", "Unmarshal event",
                   "validateEvent">>)

----------------------------------------------------------------------------
(* The lines that are decoded: the two valid events of the tests, each      *)
(* with up to MaxEdits members set, removed or added; texts  *)
(* that are no object; and whitespace around a text or alone.               *)

MaxEdits == 2
MaxWs == 2

Timestamp(hour, frac, zone) ==
  JStr(<<"2026-02-28T", hour, ":20:31">> \o frac \o <<zone>>)

TsCanonical == Timestamp("11", <<".", "3", "3", "1">>, "Z")
TsNoFraction == Timestamp("11", <<>>, "Z")
TsTrailingZero == Timestamp("11", <<".", "3", "3", "0">>, "Z")
TsPlusOne == Timestamp("11", <<".", "3", "3", "1">>, "+01:00")
TsPlusZero == Timestamp("11", <<".", "3", "3", "1">>, "+00:00")
TsCommaFraction == Timestamp("11", <<",", "3", "3", "1">>, "Z")

HTTPObject(method) ==
  JObj(<< <<"method", method>>, <<"scheme", JText("https")>>,
          <<"host", JText("example.test")>>, <<"path", JText("/users/42")>> >>)
CommandObject(name) ==
  JObj(<< <<"name", name>>, <<"args", JArr(<<JText("queue:work")>>)>> >>)
HostObject(hostname, pid) == JObj(<< <<"hostname", hostname>>, <<"pid", pid>> >>)
FrameObject(n) ==
  JObj(<< <<"file", JText("/var/www/html/routes/web.php")>>, <<"line", n>>,
          <<"func", JText("handle")>> >>)

HTTPLine ==
  JObj(<< <<"schemaVersion", JNum(1)>>, <<"id", JText("01JNFKEC8Q4Y8S97R2M5W12Q9H")>>,
          <<"timestamp", TsCanonical>>, <<"sourceType", JText("http")>>,
          <<"projectRoot", JText("/home/ronald/code/example-app")>>,
          <<"phpSapi", JText("fpm-fcgi")>>, <<"requestId", JText("f2a1a3d2-2087-4dc4-9fc4-3f8e75ae3202")>>,
          <<"http", HTTPObject(JText("GET"))>>, <<"isDd", JBool(FALSE)>>,
          <<"payloadFormat", JText("json")>>,
          <<"payload", JObj(<< <<"user", JObj(<< <<"id", JNum(42)>> >>)>> >>)>>, <<"trace", JArr(<<>>)>>,
          <<"host", HostObject(JText("ronald-linux"), JNum(48211))>> >>)

CLILine ==
  JObj(<< <<"schemaVersion", JNum(1)>>, <<"id", JText("01JNFKEPA3A4CNV3K2E12YVYTG")>>,
          <<"timestamp", TsCanonical>>, <<"sourceType", JText("cli")>>,
          <<"projectRoot", JText("/home/ronald/code/example-app")>>,
          <<"phpSapi", JText("cli")>>, <<"requestId", JNull>>,
          <<"command", CommandObject(JText("artisan"))>>, <<"isDd", JBool(FALSE)>>,
          <<"payloadFormat", JText("json")>>,
          <<"payload", JObj(<< <<"ok", JBool(TRUE)>> >>)>>, <<"trace", JArr(<<>>)>>,
          <<"host", HostObject(JText("ronald-linux"), JNum(49302))>> >>)

Values(key) ==
  CASE key = "schemaVersion" ->
         {JNum(2), JNum(0), JNum(-1), JNull, JText("1"), JFrac("1.5"), JBool(TRUE)}
    [] key = "id" -> {JEmptyStr, JNull, JNum(7)}
    [] key = "timestamp" ->
         {TsNoFraction, TsTrailingZero, TsPlusOne, TsPlusZero, TsCommaFraction,
          JText("yesterday"), JEmptyStr, JNum(5)}
    [] key = "sourceType" ->
         {JText("http"), JText("cli"), JText("worker"), JText("cron"), JText("job"),
          JText("HTTP"), JEmptyStr, JNum(5), JNull}
    [] key = "projectRoot" -> {JEmptyStr, JNull}
    [] key = "phpSapi" -> {JEmptyStr, JNum(5)}
    [] key = "requestId" ->
         {JNull, JText("a"), JEmptyStr, JNum(123), JBool(TRUE), JArr(<<>>), JObj(<<>>)}
    [] key = "isDd" ->
         {JBool(TRUE), JText("no"), JNum(1), JNull, JArr(<<>>), JObj(<<>>)}
    [] key = "payloadFormat" -> {JText("text"), JText("JSON"), JEmptyStr, JNull}
    [] key = "payload" -> {JNull, JNum(5), JText("s"), JArr(<<>>), JBool(FALSE), JBad}
    [] key = "trace" ->
         {JArr(<<FrameObject(JNum(12))>>), JArr(<<FrameObject(JNum(0))>>), JArr(<<JNum(1)>>),
          JArr(<<JNull>>), JNull, JObj(<<>>), JNum(5), JText("s"), JBool(TRUE)}
    [] key = "host" ->
         {JObj(<<>>), JNull, JArr(<<>>), HostObject(JEmptyStr, JNum(1)),
          HostObject(JText("h"), JNum(0)), HostObject(JText("h"), JNum(-1)),
          HostObject(JText("h"), JText("1"))}
    [] key = "http" ->
         {HTTPObject(JText("GET")), HTTPObject(JEmptyStr), JNull, JObj(<<>>), JText("s")}
    [] key = "command" ->
         {CommandObject(JText("artisan")), CommandObject(JEmptyStr), JNull, JObj(<<>>),
          JNum(5)}
    [] key = "extra" -> {JNum(1)}
    [] key = "ID" -> {JEmptyStr}
    [] key = "TRACE" -> {JNull}

SchemaKeys ==
  {"schemaVersion", "id", "timestamp", "sourceType", "projectRoot", "phpSapi", "requestId",
   "http", "command", "isDd", "payloadFormat", "payload", "trace", "host"}
OtherKeys == {"extra", "ID", "TRACE"}

Edits ==
  UNION {{[op |-> "set", key |-> k, val |-> x] : x \in Values(k)} :
           k \in SchemaKeys \cup OtherKeys}
    \cup {[op |-> "del", key |-> k, val |-> JNull] : k \in SchemaKeys}

(* The object with member key set to x: in place where the object has the   *)
(* key, else as a new last member.                                          *)
SetMember(members, key, x) ==
  IF HasKey(members, key)
  THEN [i \in DOMAIN members |-> IF members[i][1] = key THEN <<key, x>> ELSE members[i]]
  ELSE Append(members, <<key, x>>)

DelMember(members, key) ==
  LET Keep(m) == m[1] # key IN SelectSeq(members, Keep)

Apply(doc, e) ==
  IF e.op = "set" THEN JObj(SetMember(doc.m, e.key, e.val)) ELSE JObj(DelMember(doc.m, e.key))

RECURSIVE Edited(_)
Edited(n) ==
  IF n = 0 THEN {HTTPLine, CLILine}
  ELSE LET prev == Edited(n - 1) IN prev \cup {Apply(d, e) : d \in prev, e \in Edits}

NonObjects == {JNull, JArr(<<>>), JText("x"), JNum(1), JBool(TRUE), JBad, JObj(<<>>)}

RECURSIVE WsSeqs(_)
WsSeqs(n) ==
  IF n = 0 THEN {<<>>}
  ELSE LET prev == WsSeqs(n - 1)
       IN prev \cup {Append(w, [c |-> x, j |-> JNull]) : w \in prev, x \in WhiteSpace}

TextItem(j) == [c |-> "json", j |-> j]

OtherLines ==
  {<<TextItem(d)>> : d \in NonObjects}
    \cup {lead \o <<TextItem(d)>> \o trail :
            lead \in WsSeqs(MaxWs), trail \in WsSeqs(MaxWs),
            d \in {HTTPLine, CLILine, JNull, JBad}}
    \cup WsSeqs(MaxWs)
    \cup {<<TextItem(HTTPLine), [c |-> " ", j |-> JNull], TextItem(CLILine)>>}

----------------------------------------------------------------------------
(* The program: a caller hands one line to DecodeNDJSONLine (through        *)
(* App.DecodeDumpEventNDJSONLine) and gets its result.                      *)

NoResult == Return(<<>>, NoErr, <<>>)

Init ==
  /\ \/ \E d \in Edited(MaxEdits - 1), e \in Edits : line = <<TextItem(Apply(d, e))>>
     \/ line \in OtherLines
  /\ pc = "call"
  /\ result = NoResult
  /\ invocations = <<>>
  /\ events = <<>>

DecodeDumpEventNDJSONLine ==
  /\ pc = "call"
  /\ result' = DecodeNDJSONLine(line)
  /\ pc' = "done"
  /\ UNCHANGED <<line, invocations, events>>

Next == DecodeDumpEventNDJSONLine

Spec == Init /\ [][Next]_vars

----------------------------------------------------------------------------
(* Several invocations of DecodeNDJSONLine at once, each on a line of its   *)
(* own, run statement by statement in any interleaving.  An invocation's    *)
(* locals are line, trimmed, raw and the Event variable it decodes into;    *)
(* the package variables requiredEventKeys and ErrUnsupportedSchemaVersion  *)
(* are assigned nowhere in the package and stay the definitions above.      *)

MaxCallers == 3
Callers == 1 .. MaxCallers

CallLines ==
  { <<TextItem(HTTPLine)>>,
    <<[c |-> " ", j |-> JNull], TextItem(CLILine), [c |-> "\n", j |-> JNull]>>,
    <<TextItem(Apply(CLILine, [op |-> "set", key |-> "schemaVersion", val |-> JNum(2)]))>>,
    <<TextItem(Apply(HTTPLine, [op |-> "del", key |-> "host", val |-> JNull]))>>,
    <<[c |-> "\n", j |-> JNull]>> }

(* One Event variable for all invocations, as a package-level variable      *)
(* would be.                                                                *)
EventSlotShared(p) == 1
(* The Event variable of invocation p: "var event Event" is a local, so     *)
(* each invocation has its own.                                             *)
EventSlot(p) == p

(* An invocation about to run: its line, the statement it is at, its locals *)
(* and what it returned (the *Event as the slot it points to).              *)
Invocation(l) ==
  [line |-> l, pc |-> "TrimSpace", trimmed |-> <<>>, raw |-> <<>>,
   ret |-> [nil |-> TRUE, slot |-> 0, err |-> NoErr, steps |-> <<>>]]

InitCalls ==
  /\ invocations \in [Callers -> {Invocation(l) : l \in CallLines}]
  /\ events = [s \in Callers |-> ZeroEvent]
  /\ line = <<>>
  /\ pc = "idle"
  /\ result = NoResult

(* Invocation p returns (nil, err). *)
ReturnErr(p, err) ==
  invocations' = [invocations EXCEPT ![p].pc = "done",
    ![p].ret = [nil |-> TRUE, slot |-> 0, err |-> err,
                steps |-> Append(invocations[p].ret.steps, invocations[p].pc)]]

StepTrimSpace(p) ==
  /\ invocations[p].pc = "TrimSpace"
  /\ LET trimmed == TrimSpace(invocations[p].line)
     IN IF trimmed = <<>> THEN ReturnErr(p, NoErr)
        ELSE invocations' = [invocations EXCEPT ![p].pc = "Unmarshal raw",
               ![p].trimmed = trimmed, ![p].ret.steps = Append(@, "TrimSpace")]
  /\ UNCHANGED <<line, pc, result, events>>

StepUnmarshalRaw(p) ==
  /\ invocations[p].pc = "Unmarshal raw"
  /\ LET raw == UnmarshalRawMap(TextOf(invocations[p].trimmed))
     IN IF raw.err # NoErr THEN ReturnErr(p, raw.err)
        ELSE invocations' = [invocations EXCEPT ![p].pc = "validateRequiredKeys",
               ![p].raw = raw.val, ![p].ret.steps = Append(@, "Unmarshal raw")]
  /\ UNCHANGED <<line, pc, result, events>>

StepValidateRequiredKeys(p) ==
  /\ invocations[p].pc = "validateRequiredKeys"
  /\ LET err == validateRequiredKeys(invocations[p].raw)
     IN IF err # NoErr THEN ReturnErr(p, err)
        ELSE invocations' = [invocations EXCEPT ![p].pc = "Unmarshal event",
               ![p].ret.steps = Append(@, "validateRequiredKeys")]
  /\ UNCHANGED <<line, pc, result, events>>

StepUnmarshalEvent(p) ==
  /\ invocations[p].pc = "Unmarshal event"
  /\ LET event == UnmarshalEvent(TextOf(invocations[p].trimmed))
     IN /\ events' = [events EXCEPT ![EventSlot(p)] = event.val]
        /\ IF event.err # NoErr THEN ReturnErr(p, event.err)
           ELSE invocations' = [invocations EXCEPT ![p].pc = "validateEvent",
                  ![p].ret.steps = Append(@, "Unmarshal event")]
  /\ UNCHANGED <<line, pc, result>>

StepValidateEvent(p) ==
  /\ invocations[p].pc = "validateEvent"
  /\ LET err == validateEvent(events[EventSlot(p)])
     IN IF err # NoErr THEN ReturnErr(p, err)
        ELSE invocations' = [invocations EXCEPT ![p].pc = "done",
               ![p].ret = [nil |-> FALSE, slot |-> EventSlot(p), err |-> NoErr,
                           steps |-> Append(invocations[p].ret.steps, "validateEvent")]]
  /\ UNCHANGED <<line, pc, result, events>>

NextCalls ==
  \E p \in Callers :
    \/ StepTrimSpace(p)
    \/ StepUnmarshalRaw(p)
    \/ StepValidateRequiredKeys(p)
    \/ StepUnmarshalEvent(p)
    \/ StepValidateEvent(p)

SpecCalls == InitCalls /\ [][NextCalls]_vars

----------------------------------------------------------------------------
(* The data model of the dump-event schema, stated on the JSON text of a    *)
(* line independently of the decoder.                                       *)

Done == pc = "done"
Succeeded == ~result.event.nil /\ result.err = NoErr
FailedWith(err) == result.event.nil /\ result.err = err

TextItems(l) == {i \in DOMAIN l : l[i].c = "json"}
(* The line is one JSON object, with or without whitespace around it. *)
IsObjectLine(l) ==
  /\ Cardinality(TextItems(l)) = 1
  /\ \A i \in TextItems(l) : l[i].j.t = "obj" /\ SyntaxValid(l[i].j)
Members(l) == l[CHOOSE i \in TextItems(l) : TRUE].j.m

KeysOf(m) == {m[i][1] : i \in DOMAIN m}
UniqueKeys(m) == Cardinality(KeysOf(m)) = Len(m)

IsString(j) == j.t = "str"
IsNonEmptyString(j) == j.t = "str" /\ j.s # <<>>
IsNumber(j) == j.t \in {"num", "frac"}

(* RFC 3339 in UTC as time.RFC3339Nano writes it: the zone "Z" and a        *)
(* fraction, when there is one, of one to nine digits not ending in 0.      *)
IsCanonicalUTC(j) ==
  /\ j.t = "str"
  /\ LET s == j.s
         n == Len(s)
     IN /\ n >= 4
        /\ s[1] \in DateTokens /\ s[2] \in DOMAIN HourValue /\ s[3] \in MinSecTokens
        /\ s[n] = "Z"
        /\ \/ n = 4
           \/ /\ s[4] = "." /\ n >= 6 /\ n <= 5 + NanoDigits
              /\ \A i \in 5 .. n - 1 : s[i] \in Digits
              /\ s[n - 1] # "0"

(* An object whose members are fields of the given types, each at most      *)
(* once: types maps a key to the set of JSON types its value may have.      *)
ObjectOf(j, types) ==
  /\ j.t = "obj" /\ UniqueKeys(j.m)
  /\ \A i \in DOMAIN j.m : j.m[i][1] \in DOMAIN types /\ j.m[i][2].t \in types[j.m[i][1]]
NonEmptyIn(j, keys) ==
  \A k \in keys : HasKey(j.m, k) /\ IsNonEmptyString(Lookup(j.m, k))

HTTPShape(j) ==
  ObjectOf(j, [k \in {"method", "scheme", "host", "path", "query", "clientIp", "userAgent"}
                 |-> {"str"}] @@ ("statusCode" :> {"num"}))
CommandShape(j) ==
  /\ ObjectOf(j, ("name" :> {"str"}) @@ ("cwd" :> {"str"}) @@ ("args" :> {"arr"}))
  /\ HasKey(j.m, "args") => \A i \in DOMAIN Lookup(j.m, "args").a : IsString(Lookup(j.m, "args").a[i])
ValidHTTP(j) == HTTPShape(j) /\ NonEmptyIn(j, {"method", "scheme", "host", "path"})
ValidCommand(j) == CommandShape(j) /\ NonEmptyIn(j, {"name"})
ValidFrame(j) ==
  /\ ObjectOf(j, ("file" :> {"str"}) @@ ("line" :> {"num"}) @@ ("func" :> {"str"}))
  /\ HasKey(j.m, "line") => Lookup(j.m, "line").n > 0
ValidTrace(j) == j.t = "arr" /\ \A i \in DOMAIN j.a : ValidFrame(j.a[i])
ValidHost(j) ==
  /\ ObjectOf(j, ("hostname" :> {"str"}) @@ ("pid" :> {"num"}))
  /\ NonEmptyIn(j, {"hostname"})
  /\ HasKey(j.m, "pid") /\ Lookup(j.m, "pid").n > 0

SourceTypes == {<<"http">>, <<"cli">>, <<"worker">>, <<"cron">>}

(* The value j is valid for the required key k. *)
FieldValid(k, j) ==
  CASE k = "schemaVersion" -> j = JNum(1)
    [] k \in {"id", "projectRoot", "phpSapi"} -> IsNonEmptyString(j)
    [] k = "timestamp" -> IsCanonicalUTC(j)
    [] k = "sourceType" -> j.t = "str" /\ j.s \in SourceTypes
    [] k = "requestId" -> j.t \in {"null", "str"}
    [] k = "isDd" -> j.t = "bool"
    [] k = "payloadFormat" -> j = JText("json")
    [] k = "payload" -> SyntaxValid(j)
    [] k = "trace" -> ValidTrace(j)
    [] k = "host" -> ValidHost(j)

RequiredKeys ==
  {"schemaVersion", "id", "timestamp", "sourceType", "projectRoot", "phpSapi", "requestId",
   "isDd", "payloadFormat", "payload", "trace", "host"}

(* Every required key but those of except is present with a valid value;   *)
(* no key is repeated or differs from a field name only in case.            *)
RequiredValid(m, except) ==
  LET keys == KeysOf(m)
  IN /\ Cardinality(keys) = Len(m)
     /\ keys \subseteq SchemaKeys \cup {"extra"}
     /\ RequiredKeys \ except \subseteq keys
     /\ \A i \in DOMAIN m : m[i][1] \in RequiredKeys \ except => FieldValid(m[i][1], m[i][2])

(* A sub-object that is absent, null or of the data model's shape. *)
HTTPAbsentOrShaped(m) ==
  HasKey(m, "http") => Lookup(m, "http").t = "null" \/ HTTPShape(Lookup(m, "http"))
CommandAbsentOrShaped(m) ==
  HasKey(m, "command") => Lookup(m, "command").t = "null" \/ CommandShape(Lookup(m, "command"))

(* The sub-object that sourceType asks for is there and valid; the other    *)
(* one, if given at all, is null or of its shape.                           *)
SubObjectValid(m) ==
  /\ HTTPAbsentOrShaped(m) /\ CommandAbsentOrShaped(m)
  /\ IF Lookup(m, "sourceType").s = <<"http">>
     THEN HasKey(m, "http") /\ ValidHTTP(Lookup(m, "http"))
     ELSE HasKey(m, "command") /\ ValidCommand(Lookup(m, "command"))

WellFormed(m) == RequiredValid(m, {}) /\ SubObjectValid(m)

(* The line is an event that is valid but for (at most) its key k. *)
OtherwiseValid(l, k) ==
  /\ IsObjectLine(l)
  /\ RequiredValid(Members(l), {k})
  /\ IF k = "sourceType"
     THEN HTTPAbsentOrShaped(Members(l)) /\ CommandAbsentOrShaped(Members(l))
     ELSE SubObjectValid(Members(l))

(* The value the line gives key k. *)
Given(l, k) == Lookup(Members(l), k)
Gives(l, k) == IsObjectLine(l) /\ HasKey(Members(l), k)

----------------------------------------------------------------------------
(* C1: every line that is a JSON object with all twelve required keys       *)
(* valid per the data model, and with the sub-object its sourceType asks    *)
(* for, decodes to a non-nil Event and a nil error.                         *)
C1_WellFormedDecodes ==
  Done /\ IsObjectLine(line) /\ WellFormed(Members(line)) => Succeeded

C1_Witness ==
  /\ Done /\ IsObjectLine(line) /\ WellFormed(Members(line)) /\ Succeeded
  /\ Given(line, "sourceType") = JText("cron")
  /\ result.event.val.SourceType = <<"cron">>

(* C2: a line that is empty or only spaces, tabs, CR and LF returns a nil   *)
(* Event and a nil error, and nothing is parsed or validated.               *)
IsBlank(l) == \A i \in DOMAIN l : l[i].c \in {" ", "\t", "\r", "\n"}

C2_BlankLineIgnored ==
  Done /\ IsBlank(line) =>
    result.event.nil /\ result.err = NoErr /\ result.steps = <<"TrimSpace">>

C2_Witness ==
  /\ Done /\ IsBlank(line) /\ Len(line) = 2 /\ line[1].c = " " /\ line[2].c = "\n"
  /\ result.event.nil /\ result.err = NoErr

(* C3: removing one required key k from an otherwise valid event fails      *)
(* with "missing required dump event field: " followed by k, and no Event.  *)
C3_MissingKeyNamed ==
  Done /\ IsObjectLine(line) =>
    \A k \in RequiredKeys \ KeysOf(Members(line)) :
      OtherwiseValid(line, k) =>
        FailedWith(FmtErrorf("missing required dump event field: ", k))

C3_Witness ==
  /\ Done /\ IsObjectLine(line) /\ ~HasKey(Members(line), "host")
  /\ OtherwiseValid(line, "host")
  /\ result.err.msg = "missing required dump event field: host"

(* C4 as stated: schemaVersion set to any value other than 1, whatever its  *)
(* JSON type, returns the sentinel ErrUnsupportedSchemaVersion itself and   *)
(* no Event.                                                                *)
C4_AnyOtherValueUnsupported ==
  Done /\ OtherwiseValid(line, "schemaVersion") /\ Gives(line, "schemaVersion")
       /\ Given(line, "schemaVersion") # JNum(1)
    => FailedWith(ErrUnsupportedSchemaVersion)

(* C4 amended: schemaVersion set to an integer other than 1, or to null,    *)
(* returns the sentinel ErrUnsupportedSchemaVersion itself and no Event.    *)
C4_OtherIntegerUnsupported ==
  Done /\ OtherwiseValid(line, "schemaVersion") /\ Gives(line, "schemaVersion")
       /\ Given(line, "schemaVersion") # JNum(1)
       /\ Given(line, "schemaVersion").t \in {"num", "null"}
    => FailedWith(ErrUnsupportedSchemaVersion)

C4_Witness ==
  /\ Done /\ OtherwiseValid(line, "schemaVersion") /\ Gives(line, "schemaVersion")
  /\ Given(line, "schemaVersion") = JNum(-1)
  /\ FailedWith(ErrUnsupportedSchemaVersion)

(* C5: with requestId null or any string an otherwise valid event of any    *)
(* sourceType decodes; with requestId a number, boolean, array or object    *)
(* it fails with "requestId must be null or string".                        *)
C5_RequestIDNullOrString ==
  Done /\ OtherwiseValid(line, "requestId") /\ Gives(line, "requestId") =>
    /\ Given(line, "requestId").t \in {"null", "str"} => Succeeded
    /\ Given(line, "requestId").t \in {"num", "frac", "bool", "arr", "obj"} =>
         FailedWith(ErrorsNew("requestId must be null or string"))

C5_Witness ==
  /\ Done /\ OtherwiseValid(line, "requestId") /\ Gives(line, "requestId")
  /\ Given(line, "sourceType") = JText("http")
  /\ Given(line, "requestId") = JNull
  /\ Succeeded /\ result.event.val.RequestID.nil

(* C6: with isDd anything but the literals true and false (a string, a      *)
(* number, null, an array, an object) an otherwise valid event fails with   *)
(* "isDd must be a boolean" and no Event.                                   *)
C6_IsDDGenuineBoolean ==
  Done /\ OtherwiseValid(line, "isDd") /\ Gives(line, "isDd")
       /\ Given(line, "isDd").t # "bool"
    => FailedWith(ErrorsNew("isDd must be a boolean"))

(* C7: with trace null, an object or a scalar an otherwise valid event      *)
(* fails with "trace must be an array"; with trace an array that error is   *)
(* not returned, and with the empty array the event decodes.                *)
TraceNotArray == ErrorsNew("trace must be an array")

C7_TraceMustBeArray ==
  Done /\ OtherwiseValid(line, "trace") /\ Gives(line, "trace") =>
    /\ Given(line, "trace").t \in {"null", "obj", "num", "frac", "str", "bool"} =>
         FailedWith(TraceNotArray)
    /\ Given(line, "trace").t = "arr" => result.err # TraceNotArray
    /\ Given(line, "trace") = JArr(<<>>) => Succeeded

C7_Witness ==
  /\ Done /\ OtherwiseValid(line, "trace") /\ Gives(line, "trace")
  /\ Given(line, "trace") = JNull
  /\ FailedWith(TraceNotArray)

(* C8 as stated: sourceType set to any string that is not exactly http,     *)
(* cli, worker or cron fails with "sourceType must be one of: http, cli,    *)
(* worker, cron", whichever sub-objects the line has.                       *)
SourceTypeNotPermitted == ErrorsNew("sourceType must be one of: http, cli, worker, cron")

C8_AnyOtherSourceType ==
  Done /\ OtherwiseValid(line, "sourceType") /\ Gives(line, "sourceType")
       /\ IsString(Given(line, "sourceType"))
       /\ Given(line, "sourceType").s \notin SourceTypes
    => FailedWith(SourceTypeNotPermitted)

(* C8 amended: the same for any non-empty string that is not exactly http,  *)
(* cli, worker or cron.                                                     *)
C8_OtherNonEmptySourceType ==
  Done /\ OtherwiseValid(line, "sourceType") /\ Gives(line, "sourceType")
       /\ IsNonEmptyString(Given(line, "sourceType"))
       /\ Given(line, "sourceType").s \notin SourceTypes
    => FailedWith(SourceTypeNotPermitted)

C8_Witness ==
  /\ Done /\ OtherwiseValid(line, "sourceType") /\ Gives(line, "sourceType")
  /\ Given(line, "sourceType") = JText("HTTP")
  /\ HasKey(Members(line), "http") /\ HasKey(Members(line), "command")
  /\ FailedWith(SourceTypeNotPermitted)

(* C9 as stated: payloadFormat set to anything other than "json" fails      *)
(* with "payloadFormat must be json for schemaVersion 1".                   *)
PayloadFormatNotJSON == ErrorsNew("payloadFormat must be json for schemaVersion 1")

C9_AnyOtherPayloadFormat ==
  Done /\ OtherwiseValid(line, "payloadFormat") /\ Gives(line, "payloadFormat")
       /\ Given(line, "payloadFormat") # JText("json")
    => FailedWith(PayloadFormatNotJSON)

(* C9 amended: payloadFormat set to any non-empty string other than "json"  *)
(* fails with "payloadFormat must be json for schemaVersion 1".             *)
C9_OtherNonEmptyPayloadFormat ==
  Done /\ OtherwiseValid(line, "payloadFormat") /\ Gives(line, "payloadFormat")
       /\ IsNonEmptyString(Given(line, "payloadFormat"))
       /\ Given(line, "payloadFormat") # JText("json")
    => FailedWith(PayloadFormatNotJSON)

C9_Witness ==
  /\ Done /\ OtherwiseValid(line, "payloadFormat") /\ Gives(line, "payloadFormat")
  /\ Given(line, "payloadFormat") = JText("JSON")
  /\ FailedWith(PayloadFormatNotJSON)

(* C10: for an event that passes all earlier checks, sourceType http with   *)
(* the http sub-object missing or null fails with "http metadata is         *)
(* required when sourceType is http", and with method, scheme, host or      *)
(* path empty with "http metadata is missing required fields"; sourceType   *)
(* cli, worker or cron with command missing or null fails with "command     *)
(* metadata is required when sourceType is cli, worker, or cron", and with  *)
(* an empty name with "command metadata is missing required field: name".   *)
PassesEarlierChecks(l) ==
  /\ IsObjectLine(l)
  /\ RequiredValid(Members(l), {})
  /\ HTTPAbsentOrShaped(Members(l)) /\ CommandAbsentOrShaped(Members(l))

AbsentOrNull(l, k) == ~HasKey(Members(l), k) \/ Given(l, k).t = "null"

C10_ConditionalSubObject ==
  Done /\ PassesEarlierChecks(line) =>
    IF Given(line, "sourceType") = JText("http")
    THEN /\ AbsentOrNull(line, "http") =>
              FailedWith(ErrorsNew("http metadata is required when sourceType is http"))
         /\ ~AbsentOrNull(line, "http")
              /\ ~NonEmptyIn(Given(line, "http"), {"method", "scheme", "host", "path"}) =>
              FailedWith(ErrorsNew("http metadata is missing required fields"))
    ELSE /\ AbsentOrNull(line, "command") =>
              FailedWith(ErrorsNew("command metadata is required when sourceType is cli, worker, or cron"))
         /\ ~AbsentOrNull(line, "command") /\ ~NonEmptyIn(Given(line, "command"), {"name"}) =>
              FailedWith(ErrorsNew("command metadata is missing required field: name"))

C10_Witness ==
  /\ Done /\ PassesEarlierChecks(line)
  /\ Given(line, "sourceType") = JText("worker")
  /\ AbsentOrNull(line, "command")
  /\ FailedWith(ErrorsNew("command metadata is required when sourceType is cli, worker, or cron"))

(* C11: in every Event returned, HTTP is non-nil if and only if sourceType  *)
(* is http and Command is non-nil if and only if sourceType is cli, worker  *)
(* or cron, so exactly one of the two sub-objects is populated.             *)
C11_ExactlyOneSubObject ==
  Done /\ Succeeded =>
    LET event == result.event.val
    IN /\ ~event.HTTP.nil <=> event.SourceType = <<"http">>
       /\ ~event.Command.nil <=> event.SourceType \in {<<"cli">>, <<"worker">>, <<"cron">>}

(* C12: a non-blank line that is not syntactically valid JSON fails with    *)
(* the JSON parser's own error, returned by the first parse, and no Event;  *)
(* neither validator runs.                                                  *)
NotJSON(l) ==
  \/ Cardinality(TextItems(l)) # 1
  \/ \E i \in TextItems(l) : ~SyntaxValid(l[i].j)

C12_SyntaxErrorUnchanged ==
  Done /\ ~IsBlank(line) /\ NotJSON(line) =>
    /\ FailedWith(SyntaxError)
    /\ result.steps = <<"TrimSpace", "Unmarshal raw">>

C12_Witness ==
  /\ Done /\ Cardinality(TextItems(line)) = 1
  /\ \E i \in TextItems(line) :
       /\ line[i].j.t = "obj" /\ HasKey(line[i].j.m, "payload")
       /\ Lookup(line[i].j.m, "payload") = JBad
       /\ KeysOf(line[i].j.m) = KeysOf(CLILine.m)
  /\ FailedWith(SyntaxError)

(* C13: a non-blank line gives either an Event and a nil error or a nil     *)
(* Event and an error, never both and never neither; a nil Event with a nil *)
(* error is returned for blank lines only.                                  *)
C13_EventXorError ==
  Done =>
    /\ ~IsBlank(line) => (~result.event.nil <=> result.err = NoErr)
    /\ result.event.nil /\ result.err = NoErr => IsBlank(line)
    /\ result.event.nil => result.event.val = ZeroEvent

C13_Witness ==
  /\ Done /\ ~IsBlank(line)
  /\ result.steps[Len(result.steps)] = "validateEvent"
  /\ result.event.nil /\ result.err = ErrorsNew("invalid host metadata")

(* C14: a line that passes the presence validator and the typed parse and   *)
(* violates semantic rules fails with the error of the earliest violated    *)
(* rule in the order: schema version, empty required string or payload,     *)
(* host, timestamp not RFC3339Nano, timestamp not UTC, sourceType,          *)
(* payloadFormat, http / command sub-object, payload not valid JSON.        *)
ReachesSemanticRules(l) ==
  /\ IsObjectLine(l)
  /\ UniqueKeys(Members(l)) /\ KeysOf(Members(l)) \subseteq SchemaKeys \cup {"extra"}
  /\ result.steps # <<>> /\ result.steps[Len(result.steps)] = "validateEvent"

(* The string, or the number, that member k of an object gives; the empty   *)
(* string, or zero, when it is absent or null.                              *)
StrAt(m, k) == IF HasKey(m, k) /\ Lookup(m, k).t = "str" THEN Lookup(m, k).s ELSE <<>>
NumAt(m, k) == IF HasKey(m, k) /\ Lookup(m, k).t = "num" THEN Lookup(m, k).n ELSE 0
ObjAt(m, k) == IF HasKey(m, k) /\ Lookup(m, k).t = "obj" THEN Lookup(m, k).m ELSE <<>>

(* The text is a date, a time, a fraction or none, and a zone, the fraction *)
(* after one of the given separators.                                       *)
IsDateTime(s, separators) ==
  LET n == Len(s)
  IN /\ n >= 4
     /\ s[1] \in DateTokens /\ s[2] \in DOMAIN HourValue /\ s[3] \in MinSecTokens
     /\ s[n] \in {"Z", "+00:00", "+01:00", "-01:00"}
     /\ n > 4 => s[4] \in separators /\ n >= 6 /\ \A i \in 5 .. n - 1 : s[i] \in Digits
(* The RFC 3339 grammar, with or without a fraction. *)
IsRFC3339(s) == IsDateTime(s, {"."})
(* What the layout RFC3339Nano parses: RFC 3339, and a fraction written     *)
(* after a comma as well.                                                   *)
ParsesAsRFC3339Nano(s) == IsDateTime(s, {".", ","})

SubObjectRuleViolated(m) ==
  IF StrAt(m, "sourceType") = <<"http">>
  THEN \/ ~HasKey(m, "http") \/ Lookup(m, "http").t = "null"
       \/ \E k \in {"method", "scheme", "host", "path"} : StrAt(ObjAt(m, "http"), k) = <<>>
  ELSE \/ ~HasKey(m, "command") \/ Lookup(m, "command").t = "null"
       \/ StrAt(ObjAt(m, "command"), "name") = <<>>

(* The rules in their order, each with whether members m violate it. *)
SemanticRules(m) ==
  << NumAt(m, "schemaVersion") # 1,
     \E k \in {"id", "timestamp", "sourceType", "projectRoot", "phpSapi", "payloadFormat"} :
       StrAt(m, k) = <<>>,
     StrAt(ObjAt(m, "host"), "hostname") = <<>> \/ NumAt(ObjAt(m, "host"), "pid") <= 0,
     ~ParsesAsRFC3339Nano(StrAt(m, "timestamp")),
     ~IsCanonicalUTC(JStr(StrAt(m, "timestamp"))),
     StrAt(m, "sourceType") \notin SourceTypes,
     StrAt(m, "payloadFormat") # <<"json">>,
     SubObjectRuleViolated(m),
     ~SyntaxValid(Lookup(m, "payload")) >>

Violated(m) == LET rules == SemanticRules(m) IN {i \in DOMAIN rules : rules[i]}
Earliest(violated) == CHOOSE i \in violated : \A k \in violated : i <= k

(* The errors a rule reports (the sub-object rule has four). *)
RuleErrors(i) ==
  CASE i = 1 -> {ErrUnsupportedSchemaVersion}
    [] i = 2 -> {ErrorsNew("missing required dump event fields")}
    [] i = 3 -> {ErrorsNew("invalid host metadata")}
    [] i = 4 -> {ErrorsNew("timestamp must be RFC3339Nano")}
    [] i = 5 -> {ErrorsNew("timestamp must be UTC (Z)")}
    [] i = 6 -> {SourceTypeNotPermitted}
    [] i = 7 -> {PayloadFormatNotJSON}
    [] i = 8 -> {ErrorsNew("http metadata is required when sourceType is http"),
                 ErrorsNew("http metadata is missing required fields"),
                 ErrorsNew("command metadata is required when sourceType is cli, worker, or cron"),
                 ErrorsNew("command metadata is missing required field: name")}
    [] i = 9 -> {ErrorsNew("payload must be valid JSON")}

C14_EarliestViolatedRule ==
  Done /\ ReachesSemanticRules(line) =>
    LET violated == Violated(Members(line))
    IN violated # {} => result.event.nil /\ result.err \in RuleErrors(Earliest(violated))

C14_Witness ==
  /\ Done /\ ReachesSemanticRules(line)
  /\ Violated(Members(line)) = {2, 3}
  /\ FailedWith(ErrorsNew("missing required dump event fields"))

(* What the caller of invocation p holds once it has returned: the error    *)
(* and the Event its pointer leads to.                                      *)
Returned(p) ==
  LET ret == invocations[p].ret
  IN Return(IF ret.nil THEN <<>> ELSE <<events[ret.slot]>>, ret.err, ret.steps)
HasReturned(p) == invocations[p].pc = "done"

(* C15: two calls on the same line return equal results (Events equal field *)
(* by field, or the same error), whatever calls on other lines are made     *)
(* before or between them.                                                  *)
C15_SameLineSameResult ==
  \A p, q \in Callers :
    HasReturned(p) /\ HasReturned(q) /\ invocations[p].line = invocations[q].line =>
      Returned(p) = Returned(q)

C15_Witness ==
  \E p, q, r \in Callers :
    /\ p # q /\ HasReturned(p) /\ HasReturned(q) /\ HasReturned(r)
    /\ invocations[p].line = invocations[q].line
    /\ invocations[r].line # invocations[p].line
    /\ invocations[r].ret.err = NoErr /\ ~invocations[r].ret.nil
    /\ Returned(p).err = ErrUnsupportedSchemaVersion /\ Returned(q) = Returned(p)

(* C17: invocations on different lines, their statements interleaved in any *)
(* order, each return what the invocation returns when run alone, and the   *)
(* Events returned are distinct variables.                                  *)
RunAlone == [l \in CallLines |-> DecodeNDJSONLine(l)]

C17_InterleavingIndependent ==
  \A p \in Callers :
    HasReturned(p) =>
      /\ Returned(p) = RunAlone[invocations[p].line]
      /\ \A q \in Callers \ {p} :
           HasReturned(q) /\ ~invocations[p].ret.nil /\ ~invocations[q].ret.nil =>
             invocations[p].ret.slot # invocations[q].ret.slot

C17_Witness ==
  \E p, q \in Callers :
    /\ invocations[p].line # invocations[q].line
    /\ HasReturned(p) /\ ~Returned(p).event.nil
    /\ Returned(p).event.val.SourceType = <<"http">>
    /\ invocations[q].pc = "validateEvent"
    /\ events[EventSlot(q)].SourceType = <<"cli">>

(* C16: every Event that DecodeNDJSONLine returns, written as one JSON line *)
(* with the wire field names and decoded again, gives no error and an Event *)
(* equal to the original.                                                   *)
Serialized(event) == <<TextItem(Marshal("Event", event))>>

C16_RoundTrip ==
  Done /\ Succeeded =>
    LET again == DecodeNDJSONLine(Serialized(result.event.val))
    IN again.err = NoErr /\ ~again.event.nil /\ again.event.val = result.event.val

(* C18: adding a top-level key that is not one of the schema's field names, *)
(* with any JSON value, to the object of a line does not change the         *)
(* outcome: the same Event or the same error.                               *)
WithMember(l, k, x) ==
  [i \in DOMAIN l |-> IF l[i].c = "json" THEN TextItem(JObj(Append(l[i].j.m, <<k, x>>)))
                                         ELSE l[i]]

C18_UnknownFieldsIgnored ==
  Done /\ IsObjectLine(line) =>
    \A k \in OtherKeys \ KeysOf(Members(line)) : \A x \in Values(k) :
      LET with == DecodeNDJSONLine(WithMember(line, k, x))
      IN with.event = result.event /\ with.err = result.err

(* C19: a line whose text is valid JSON but no object fails in the JSON     *)
(* parse step, with that step's error; the presence validator does not      *)
(* report it.  As stated, for an array, a string, a number, a boolean and   *)
(* null alike.                                                              *)
TopLevel(l) == l[CHOOSE i \in TextItems(l) : TRUE].j
IsNonObjectLine(l, types) ==
  /\ Cardinality(TextItems(l)) = 1
  /\ SyntaxValid(TopLevel(l)) /\ TopLevel(l).t \in types

FailedInParseStep ==
  /\ result.event.nil /\ result.err # NoErr
  /\ result.steps = <<"TrimSpace", "Unmarshal raw">>
  /\ result.err.kind \in {"SyntaxError", "UnmarshalTypeError"}

PassesUpToHost(l) ==
  ReachesSemanticRules(l) /\ Violated(Members(l)) \cap {1, 2, 3} = {}

NotRFC3339Nano == ErrorsNew("timestamp must be RFC3339Nano")
NotUTC == ErrorsNew("timestamp must be UTC (Z)")

TimestampCheck(parses) ==
  Done /\ PassesUpToHost(line) =>
    LET ts == StrAt(Members(line), "timestamp")
    IN /\ ~parses[ts] => FailedWith(NotRFC3339Nano)
       /\ parses[ts] /\ ~IsCanonicalUTC(JStr(ts)) => FailedWith(NotUTC)
       /\ IsCanonicalUTC(JStr(ts)) => result.err \notin {NotRFC3339Nano, NotUTC}

TimestampTexts == {x.s : x \in {y \in Values("timestamp") \cup {TsCanonical} : y.t = "str"}}

C20_RFC3339GrammarDecides ==
  TimestampCheck([ts \in TimestampTexts |-> IsRFC3339(ts)])

(* C20 as amended: the first error is for a timestamp that time.Parse with  *)
(* the layout RFC3339Nano rejects; Parse also takes a fraction written      *)
(* after a comma, and such a timestamp fails with "timestamp must be UTC    *)
(* (Z)".                                                                    *)
C20_ParseDecides ==
  TimestampCheck([ts \in TimestampTexts |-> ParsesAsRFC3339Nano(ts)])

C20_Witness ==
  /\ Done /\ PassesUpToHost(line)
  /\ Given(line, "timestamp") = TsTrailingZero
  /\ FailedWith(NotUTC)

(* C21: whitespace (space, tab, CR, LF) before and after a line does not    *)
(* change the outcome: the line with it returns the same Event or the same  *)
(* error as the line without it.                                            *)
IsWhitespace(item) == item.c \in {" ", "\t", "\r", "\n"}
HasOuterWhitespace(l) == l # <<>> /\ (IsWhitespace(l[1]) \/ IsWhitespace(l[Len(l)]))

(* The line between its first and its last item that is not whitespace. *)
WithoutOuterWhitespace(l) ==
  LET inked == {i \in DOMAIN l : ~IsWhitespace(l[i])}
  IN IF inked = {} THEN <<>>
     ELSE SubSeq(l, CHOOSE i \in inked : \A k \in inked : i <= k,
                    CHOOSE i \in inked : \A k \in inked : i >= k)

C21_OuterWhitespaceIgnored ==
  Done /\ HasOuterWhitespace(line) =>
    LET bare == DecodeNDJSONLine(WithoutOuterWhitespace(line))
    IN bare.event = result.event /\ bare.err = result.err

C21_Witness ==
  /\ Done /\ Len(line) = 4
  /\ line[1].c = "\t" /\ line[3].c = "\r" /\ line[4].c = "\n"
  /\ line[2] = TextItem(HTTPLine)
  /\ Succeeded /\ result.event.val.SourceType = <<"http">>

(* C22: the presence validator reports its first failure only, in the order *)
(* a missing key (schemaVersion, id, timestamp, sourceType, projectRoot,    *)
(* phpSapi, requestId, isDd, payloadFormat, payload, trace, host), then     *)
(* requestId not null or a string, then isDd not a boolean, then trace not  *)
(* an array.                                                                *)
DeclaredOrder ==
  <<"schemaVersion", "id", "timestamp", "sourceType", "projectRoot", "phpSapi", "requestId",
    "isDd", "payloadFormat", "payload", "trace", "host">>

(* The presence rules in their order, each with whether members m violate   *)
(* it and the error it reports; booleans are the JSON types isDd may have.  *)
PresenceRules(m, booleans) ==
  [i \in DOMAIN DeclaredOrder |->
     [violated |-> ~HasKey(m, DeclaredOrder[i]),
      err |-> FmtErrorf("missing required dump event field: ", DeclaredOrder[i])]]
  \o << [violated |-> HasKey(m, "requestId") /\ Lookup(m, "requestId").t \notin {"null", "str"},
         err |-> ErrorsNew("requestId must be null or string")],
        [violated |-> HasKey(m, "isDd") /\ Lookup(m, "isDd").t \notin booleans,
         err |-> ErrorsNew("isDd must be a boolean")],
        [violated |-> HasKey(m, "trace") /\ Lookup(m, "trace").t # "arr",
         err |-> ErrorsNew("trace must be an array")] >>

PresenceViolated(m, booleans) ==
  LET rules == PresenceRules(m, booleans) IN {i \in DOMAIN rules : rules[i].violated}

FirstPresenceFailure(booleans) ==
  Done /\ IsObjectLine(line) =>
    LET violated == PresenceViolated(Members(line), booleans)
    IN violated # {} =>
         FailedWith(PresenceRules(Members(line), booleans)[Earliest(violated)].err)

C22_PresenceOrder == FirstPresenceFailure({"bool"})

(* C23: a JSON object that violates a presence rule (a required key         *)
(* missing, or requestId, isDd or trace of the wrong type) and a rule of    *)
(* the typed stage as well fails with the presence error, never with        *)
(* ErrUnsupportedSchemaVersion, a decoder error or a semantic message.      *)
TypedStageRuleViolated(m) ==
  \/ HasKey(m, "schemaVersion") /\ Lookup(m, "schemaVersion") # JNum(1)
  \/ \E k \in {"id", "timestamp", "sourceType", "projectRoot", "phpSapi", "payloadFormat"} :
       HasKey(m, k) /\ ~IsNonEmptyString(Lookup(m, k))
  \/ HasKey(m, "host") /\ ~ValidHost(Lookup(m, "host"))
  \/ HasKey(m, "timestamp") /\ ~IsCanonicalUTC(Lookup(m, "timestamp"))
  \/ StrAt(m, "sourceType") \notin SourceTypes
  \/ StrAt(m, "payloadFormat") # <<"json">>
  \/ SubObjectRuleViolated(m)

PresenceErrorFirst(booleans) ==
  Done /\ IsObjectLine(line) =>
    LET rules == PresenceRules(Members(line), booleans)
    IN (\E i \in DOMAIN rules : rules[i].violated) /\ TypedStageRuleViolated(Members(line)) =>
         /\ result.event.nil
         /\ result.err \in {rules[i].err : i \in DOMAIN rules}
         /\ result.steps = <<"TrimSpace", "Unmarshal raw", "validateRequiredKeys">>

C23_PresenceErrorFirst == PresenceErrorFirst({"bool"})

(* C24: for an event with the supported schemaVersion and its required      *)
(* strings non-empty, a host with an empty hostname or a pid of zero or     *)
(* less (a host given as {} or null included) fails with "invalid host      *)
(* metadata"; every Event returned has a non-empty hostname and pid > 0.    *)
HostGivenInvalid(m) ==
  \/ Lookup(m, "host").t = "null"
  \/ /\ Lookup(m, "host").t = "obj"
     /\ \/ StrAt(Lookup(m, "host").m, "hostname") = <<>>
        \/ NumAt(Lookup(m, "host").m, "pid") <= 0

C24_InvalidHostRejected ==
  /\ Done /\ ReachesSemanticRules(line) /\ Violated(Members(line)) \cap {1, 2} = {}
       /\ HostGivenInvalid(Members(line)) =>
       FailedWith(ErrorsNew("invalid host metadata"))
  /\ Done /\ Succeeded =>
       result.event.val.Host.Hostname # <<>> /\ result.event.val.Host.PID > 0

C24_Witness ==
  /\ Done /\ ReachesSemanticRules(line) /\ Violated(Members(line)) \cap {1, 2} = {}
  /\ Given(line, "host") = HostObject(JText("h"), JNum(0))
  /\ FailedWith(ErrorsNew("invalid host metadata"))

(* C25: for an event with the supported schemaVersion, one of id,           *)
(* timestamp, sourceType, projectRoot, phpSapi, payloadFormat present with  *)
(* the empty string or null fails with the generic "missing required dump   *)
(* event fields", not with a per-key message, whatever host, timestamp,     *)
(* sourceType, payloadFormat or sub-object error the event has as well.     *)
RequiredStrings == {"id", "timestamp", "sourceType", "projectRoot", "phpSapi", "payloadFormat"}

GivenEmpty(m) == {k \in RequiredStrings : HasKey(m, k) /\ Lookup(m, k) \in {JEmptyStr, JNull}}

C25_EmptyStringGeneric ==
  Done /\ ReachesSemanticRules(line) /\ 1 \notin Violated(Members(line))
       /\ GivenEmpty(Members(line)) # {} =>
    FailedWith(ErrorsNew("missing required dump event fields"))

C25_Witness ==
  /\ Done /\ ReachesSemanticRules(line) /\ 1 \notin Violated(Members(line))
  /\ GivenEmpty(Members(line)) = {"sourceType"} /\ Given(line, "sourceType") = JNull
  /\ Given(line, "host") = JObj(<<>>)
  /\ FailedWith(ErrorsNew("missing required dump event fields"))

(* C26: a line that passes the presence validator and gives a field a JSON  *)
(* value whose type does not fit the Event structure fails with the typed   *)
(* decoder's own error and no Event; validateEvent is not run.              *)
RECURSIVE Fits(_, _)
(* The JSON value j fits a Go value of the given type: null fits every      *)
(* type, a RawMessage takes every value, members that name no field are     *)
(* skipped.                                                                 *)
Fits(kind, j) ==
  IF j.t = "null" \/ kind = "RawMessage" THEN TRUE
  ELSE IF kind \in PointerKinds THEN Fits(Elem(kind), j)
  ELSE IF kind = "int" THEN j.t = "num"
  ELSE IF kind = "string" THEN j.t = "str"
  ELSE IF kind = "bool" THEN j.t = "bool"
  ELSE IF kind \in SliceKinds THEN j.t = "arr" /\ \A i \in DOMAIN j.a : Fits(Elem(kind), j.a[i])
  ELSE /\ j.t = "obj"
       /\ \A i \in DOMAIN j.m :
            FieldIndex(kind, j.m[i][1]) # 0 =>
              Fits(Fields(kind)[FieldIndex(kind, j.m[i][1])].kind, j.m[i][2])

PassedPresenceValidator ==
  Len(result.steps) > 3 /\ result.steps[3] = "validateRequiredKeys"

C26_TypeMisfitDecoderError ==
  Done /\ IsObjectLine(line) /\ PassedPresenceValidator /\ ~Fits("Event", TopLevel(line)) =>
    /\ result.event.nil /\ result.err.kind = "UnmarshalTypeError"
    /\ result.steps = <<"TrimSpace", "Unmarshal raw", "validateRequiredKeys", "Unmarshal event">>

C26_Witness ==
  /\ Done /\ IsObjectLine(line) /\ PassedPresenceValidator
  /\ Given(line, "host") = JArr(<<>>) /\ Given(line, "schemaVersion") = JNum(2)
  /\ FailedWith(UnmarshalTypeError("array", "struct field Event.host", "dump.HostMeta"))

(* C27: in every Event returned trace is a sequence, never nil, and a line  *)
(* whose trace has a frame with a line of zero or less does not decode to   *)
(* an Event.                                                                *)
HasFrameWithoutPositiveLine(m) ==
  /\ HasKey(m, "trace") /\ Lookup(m, "trace").t = "arr"
  /\ \E i \in DOMAIN Lookup(m, "trace").a :
       LET frame == Lookup(m, "trace").a[i]
       IN frame.t = "obj" /\ HasKey(frame.m, "line") /\ Lookup(frame.m, "line").t = "num"
            /\ Lookup(frame.m, "line").n <= 0

C27_TraceSequencePositiveLines ==
  /\ Done /\ Succeeded => ~result.event.val.Trace.nil
  /\ Done /\ IsObjectLine(line) /\ HasFrameWithoutPositiveLine(Members(line)) => ~Succeeded

(* C28 as stated: "timestamp must be UTC (Z)" is returned only for a        *)
(* timestamp written with an offset other than Z; every RFC 3339 timestamp  *)
(* written with Z, whatever its fraction digits, passes the timestamp       *)
(* check.                                                                   *)
WrittenWithZ(ts) == ts # <<>> /\ ts[Len(ts)] = "Z"

C28_OnlyOtherOffsetsRejected ==
  Done /\ PassesUpToHost(line) =>
    LET ts == StrAt(Members(line), "timestamp")
    IN /\ result.err = NotUTC => ~WrittenWithZ(ts)
       /\ IsRFC3339(ts) /\ WrittenWithZ(ts) => result.err \notin {NotRFC3339Nano, NotUTC}

(* C28 as amended: the error is returned for every timestamp that parses    *)
(* and is not written as the UTC rendering writes it: with another offset   *)
(* than Z (+00:00 included), with a fraction that ends in 0, or with the    *)
(* fraction after a comma; a timestamp with Z and no fraction, or a         *)
(* fraction of one to nine digits after "." that does not end in 0, passes  *)
(* the check.                                                               *)
FractionAsRendered(ts) ==
  \/ Len(ts) = 4
  \/ /\ Len(ts) > 5 /\ Len(ts) <= 5 + NanoDigits
     /\ ts[4] = "." /\ ts[Len(ts) - 1] \in Digits \ {"0"}

C28_UTCErrorIffNotAsRendered ==
  Done /\ PassesUpToHost(line) =>
    LET ts == StrAt(Members(line), "timestamp")
    IN /\ result.err = NotUTC <=>
            ParsesAsRFC3339Nano(ts) /\ ~(WrittenWithZ(ts) /\ FractionAsRendered(ts))
       /\ ParsesAsRFC3339Nano(ts) /\ WrittenWithZ(ts) /\ FractionAsRendered(ts) =>
            result.err # NotRFC3339Nano

C28_Witness ==
  /\ Done /\ PassesUpToHost(line)
  /\ Given(line, "timestamp") = TsPlusZero
  /\ Given(line, "sourceType") = JText("job")
  /\ FailedWith(NotUTC)

(* C29: every Event returned with a nil error satisfies all validation      *)
(* rules at once: SchemaVersion is the supported constant 1, which          *)
(* SupportedDumpEventSchemaVersion reports; ID, Timestamp, ProjectRoot and  *)
(* PHPSAPI are non-empty; Timestamp is in canonical UTC RFC3339Nano form;   *)
(* SourceType is one of http, cli, worker, cron; PayloadFormat is "json";   *)
(* Payload is non-empty, syntactically valid JSON; Host.Hostname is         *)
(* non-empty and Host.PID > 0; and the sub-object SourceType requires is    *)
(* present with its required fields non-empty.                              *)
RequiredSubObjectFilled(event) ==
  IF event.SourceType = <<"http">>
  THEN /\ ~event.HTTP.nil
       /\ event.HTTP.val.Method # <<>> /\ event.HTTP.val.Scheme # <<>>
       /\ event.HTTP.val.Host # <<>> /\ event.HTTP.val.Path # <<>>
  ELSE ~event.Command.nil /\ event.Command.val.Name # <<>>

FullyValid(event) ==
  /\ event.SchemaVersion = 1 /\ SupportedDumpEventSchemaVersion = 1
  /\ event.ID # <<>> /\ event.Timestamp # <<>>
  /\ event.ProjectRoot # <<>> /\ event.PHPSAPI # <<>>
  /\ IsCanonicalUTC(JStr(event.Timestamp))
  /\ event.SourceType \in {<<"http">>, <<"cli">>, <<"worker">>, <<"cron">>}
  /\ event.PayloadFormat = <<"json">>
  /\ Len(event.Payload) = 1 /\ SyntaxValid(event.Payload[1])
  /\ event.Host.Hostname # <<>> /\ event.Host.PID > 0
  /\ RequiredSubObjectFilled(event)

C29_ReturnedEventFullyValid ==
  Done /\ ~result.event.nil /\ result.err = NoErr => FullyValid(result.event.val)

C29_Witness ==
  /\ Done /\ result.err = NoErr /\ ~result.event.nil
  /\ line # <<TextItem(HTTPLine)>> /\ line # <<TextItem(CLILine)>>
  /\ result.event.val.SourceType = <<"cron">>
  /\ ~result.event.val.Command.nil /\ result.event.val.HTTP.nil
  /\ FullyValid(result.event.val)

(* C30: through DecodeNDJSONLine the final payload check can never fire:    *)
(* "payload must be valid JSON" is never returned and, whenever the Event   *)
(* checks are reached, the payload is one valid JSON value, so the          *)
(* empty-payload branch of the non-empty check is never the cause of a      *)
(* failure; a line whose payload value is missing or not valid JSON is      *)
(* already rejected by the first JSON parse, and a line without the         *)
(* payload key by the presence validator.                                   *)
PayloadNotValidJSON == ErrorsNew("payload must be valid JSON")

HasBadPayload(l) ==
  /\ Cardinality(TextItems(l)) = 1 /\ TopLevel(l).t = "obj"
  /\ \E i \in DOMAIN TopLevel(l).m :
       TopLevel(l).m[i][1] = "payload" /\ ~SyntaxValid(TopLevel(l).m[i][2])

ReachedEventChecks == Len(result.steps) = 5 /\ result.steps[5] = "validateEvent"
StoppedInPresenceValidator ==
  /\ result.event.nil /\ result.err.kind = "fmtError"
  /\ result.steps = <<"TrimSpace", "Unmarshal raw", "validateRequiredKeys">>

C30_PayloadCheckNeverFires ==
  Done =>
    /\ result.err # PayloadNotValidJSON
    /\ ReachedEventChecks =>
         LET payload == UnmarshalEvent(TextOf(TrimSpace(line))).val.Payload
         IN Len(payload) = 1 /\ SyntaxValid(payload[1])
    /\ HasBadPayload(line) =>
         FailedWith(SyntaxError) /\ result.steps = <<"TrimSpace", "Unmarshal raw">>
    /\ IsObjectLine(line) /\ "payload" \notin KeysOf(Members(line)) =>
         StoppedInPresenceValidator

C30_Witness ==
  /\ Done /\ IsObjectLine(line) /\ ReachedEventChecks
  /\ HasKey(Members(line), "payload") /\ Lookup(Members(line), "payload") = JNull
  /\ HasKey(Members(line), "phpSapi") /\ Lookup(Members(line), "phpSapi") = JEmptyStr
  /\ FailedWith(ErrorsNew("missing required dump event fields"))

====
